---- MODULE Spec2Model ----
(***************************************************************************)
(* Stock-consistency core of the point-of-sale server:                     *)
(*   createInventoryMovement / adjustInventory  (create_inventory_movement) *)
(*   createTransaction                          (create_transaction)        *)
(*   updateTransaction / handleStatusChange     (update_transaction)        *)
(* over the tables products, inventory_movements, transactions and         *)
(* transaction_items.                                                      *)
(*                                                                         *)
(* Each request runs in a slot p \in Procs.  A handler is cut into steps   *)
(* at its awaited database statements.  Statements issued through          *)
(* db.transaction(tx => ...) write into a private buffer in loc[p] that    *)
(* becomes visible at commit and is dropped on a throw; an UPDATE of a     *)
(* product row inside such a block holds that row's lock until the block   *)
(* ends.  Statements issued on db directly (updateTransaction) commit one  *)
(* by one.                                                                 *)
(***************************************************************************)
EXTENDS Integers, Sequences, FiniteSets, TLC

\* ---------------------------------------------------------------- bounds
NumProducts == 2      \* product rows 1..NumProducts
NumProcs    == 2      \* request slots
MaxStock    == 2      \* a product is seeded with 0..MaxStock units
MaxQty      == 2      \* largest quantity magnitude in a request
MaxItems    == 2      \* most line items in one sale
MaxMoves    == 2      \* manual movement requests in a run of movements only
MaxStockMoves == 1    \* manual movement requests in a run of all handlers
MaxUpdates  == 2      \* updateTransaction requests in one run
MaxTx       == 1      \* createTransaction requests in one run

Products == 1..NumProducts
Procs    == 1..NumProcs
\* An id that resolves to no row (ids are serial, so 0 is never assigned).
NoId     == 0
\* SQL NULL in an integer column / a text column.
NullId   == 0
NullText == "null"

\* An optional (possibly undefined) request field: <<>> or <<v>>.
Undef      == <<>>
Some(v)    == <<v>>
IsDef(o)   == o # <<>>
Val(o)     == o[1]

Abs(n) == IF n < 0 THEN -n ELSE n

VARIABLES
    stock,          \* products.stock_quantity, by product id
    movements,      \* inventory_movements rows, in commit order
    transactions,   \* transactions rows, by id
    items,          \* transaction_items rows, in commit order
    nextTxId,       \* the transactions id sequence
    lock,           \* product row lock: 0 or the slot whose open block holds it
    pc,             \* where each slot's handler stands
    req,            \* the slot's request: [op, input]
    loc,            \* the handler's local variables and its block's buffer
    result,         \* outcome of the slot's latest request
    snap,           \* history: the committed tables when the request started
    mark,           \* history: by transaction, the state when its latest cancellation began
    failed,         \* history: some request so far has thrown
    stock0,         \* history: each product's stock_quantity at creation
    calls,          \* history: requests issued so far, by handler
    args            \* history: the arguments of the slot's latest adjustInventory

vars == <<stock, movements, transactions, items, nextTxId, lock, pc, req, loc,
          result, snap, mark, failed, stock0, calls, args>>

db == [stock |-> stock, movements |-> movements,
       transactions |-> transactions, items |-> items]


\* ------------------------------------------------------------ row shapes
\* The enumerated column types.
MovementTypes == {"in", "out", "adjustment"}
Statuses == {"pending", "completed", "cancelled"}

\* An inventory_movements row.  delta is history, not a column: the change the
\* writing handler made to stock_quantity together with this row.
Movement(product_id, movement_type, quantity, reference_type, reference_id, notes, delta) ==
    [product_id |-> product_id, movement_type |-> movement_type,
     quantity |-> quantity, reference_type |-> reference_type,
     reference_id |-> reference_id, notes |-> notes, delta |-> delta]

\* A transaction_items row (the price columns play no part in stock keeping).
Item(transaction_id, product_id, quantity) ==
    [transaction_id |-> transaction_id, product_id |-> product_id,
     quantity |-> quantity]

\* Request-local state of a handler that has not started.
NoRow == [status |-> "none", customer_id |-> NullId, total_amount |-> 0,
          discount_amount |-> 0, final_amount |-> 0,
          payment_method |-> NullText, notes |-> NullText]

LocInit == [txid |-> 0, i |-> 0, current |-> NoRow, items |-> <<>>,
            product_stock |-> 0, newStock |-> 0,
            wrow |-> NoRow, wstock |-> [q \in {} |-> 0],
            witems |-> <<>>, wmov |-> <<>>]

NoReq == [op |-> "none", input |-> <<>>]

\* ----------------------------------------------------- request plumbing
NoSnap == [stock |-> [q \in Products |-> 0], movements |-> <<>>,
           transactions |-> [t \in {} |-> NoRow], items |-> <<>>]

NoResult == [op |-> "none", outcome |-> "none", at |-> 0]

\* An idle slot takes request input of handler op: the request and the tables
\* as they stand are remembered.
Call(p, op, input) ==
    /\ pc[p] = "idle"
    /\ calls' = [calls EXCEPT ![op] = @ + 1]
    /\ req' = [req EXCEPT ![p] = [op |-> op, input |-> input]]
    /\ snap' = [snap EXCEPT ![p] = db]

\* The handler returns or throws with outcome r (at item loc[p].i of its loop,
\* if it is in one): the slot is idle again.
Return(p, op, r) ==
    /\ pc' = [pc EXCEPT ![p] = "idle"]
    /\ result' = [result EXCEPT ![p] = [op |-> op, outcome |-> r, at |-> loc[p].i]]
    /\ loc' = [loc EXCEPT ![p] = LocInit]
    /\ failed' = (failed \/ r # "ok")

Finish(p, r) ==
    /\ Return(p, req[p].op, r)
    /\ UNCHANGED <<req, snap, args>>

\* The handler passes its first statement and stands at step s with locals l.
Start(p, op, s, l) ==
    /\ pc' = [pc EXCEPT ![p] = s]
    /\ result' = [result EXCEPT ![p] = [op |-> op, outcome |-> "running", at |-> 0]]
    /\ loc' = [loc EXCEPT ![p] = l]
    /\ UNCHANGED failed

\* The handler goes on to step s with locals l.
Goto(p, s, l) ==
    /\ pc' = [pc EXCEPT ![p] = s]
    /\ loc' = [loc EXCEPT ![p] = l]
    /\ UNCHANGED <<req, snap, result, failed, args>>

\* The router refuses an input its schema does not accept: the handler is
\* not entered.
Reject(p, op, input) ==
    /\ Call(p, op, input)
    /\ Return(p, op, "InvalidInput")
    /\ UNCHANGED <<stock, movements, transactions, items, nextTxId, lock, stock0, mark>>

\* The row locks slot p's block holds are released (commit or rollback).
Released(p) == [q \in Products |-> IF lock[q] = p THEN 0 ELSE lock[q]]

\* ------------------------------------------- createInventoryMovement
\* The stockChange computed from the movement type.
StockChange(input) ==
    IF input.movement_type = "in" THEN input.quantity
    ELSE IF input.movement_type = "out" THEN -Abs(input.quantity)
    ELSE IF input.movement_type = "adjustment" THEN input.quantity
    ELSE 0

\* The row with the applied change in its quantity column.
MovementRowSigned(input) ==
    Movement(input.product_id, input.movement_type, StockChange(input),
             input.reference_type, input.reference_id, input.notes,
             StockChange(input))

\* The row the handler inserts.
MovementRow(input) ==
    Movement(input.product_id, input.movement_type, input.quantity,
             input.reference_type, input.reference_id, input.notes,
             StockChange(input))

\* Negative-stock guard of the handler.
InsufficientNever(newStock) == FALSE

Insufficient(newStock) == newStock < 0

\* The movement row is inserted before the product is looked up.
CimStartInsertsFirst(p, op, input) ==
    /\ Call(p, op, input)
    /\ UNCHANGED <<stock, transactions, items, nextTxId, lock, stock0, mark>>
    /\ IF input.product_id \notin Products
         THEN /\ Return(p, op, "NotFound")
              /\ movements' = Append(movements, MovementRow(input))
         ELSE /\ UNCHANGED movements
              /\ LET newStock == stock[input.product_id] + StockChange(input)
                 IN IF Insufficient(newStock)
                      THEN Return(p, op, "InsufficientStock")
                      ELSE Start(p, op, "cim_write",
                                 [LocInit EXCEPT !.newStock = newStock])

\* select the product; throw if missing; compute newStock; throw if negative.
CimStart(p, op, input) ==
    /\ Call(p, op, input)
    /\ UNCHANGED <<stock, movements, transactions, items, nextTxId, lock, stock0, mark>>
    /\ IF input.product_id \notin Products
         THEN Return(p, op, "NotFound")
         ELSE LET currentStock == stock[input.product_id]
                  newStock == currentStock + StockChange(input)
              IN IF Insufficient(newStock)
                   THEN Return(p, op, "InsufficientStock")
                   ELSE Start(p, op, "cim_write",
                              [LocInit EXCEPT !.newStock = newStock])

\* What the route's input schema accepts: a movement type of the enum and
\* any integer quantity.
MovementInputOk(input) ==
    /\ input.movement_type \in MovementTypes
    /\ input.quantity \in Int

CreateInventoryMovementCall(p, input) ==
    /\ IF MovementInputOk(input)
         THEN CimStart(p, "createInventoryMovement", input)
         ELSE Reject(p, "createInventoryMovement", input)
    /\ UNCHANGED args

\* adjustInventory(productId, quantity, notes) builds the input and delegates.
AdjustInput(productId, quantity, notes) ==
    [product_id |-> productId, movement_type |-> "adjustment", quantity |-> quantity,
     reference_type |-> "manual", reference_id |-> NullId,
     notes |-> IF IsDef(notes) /\ Val(notes) # "" THEN Val(notes) ELSE NullText]

AdjustInventoryCall(p, productId, quantity, notes) ==
    /\ CimStart(p, "adjustInventory", AdjustInput(productId, quantity, notes))
    /\ args' = [args EXCEPT ![p] = [productId |-> productId, quantity |-> quantity,
                                    notes |-> notes]]

\* The stock update without its WHERE clause: every product row is set.
CimWriteEveryProduct(p) ==
    /\ pc[p] = "cim_write"
    /\ lock[req[p].input.product_id] = 0
    /\ movements' = Append(movements, MovementRow(req[p].input))
    /\ stock' = [q \in Products |-> loc[p].newStock]
    /\ Finish(p, "ok")
    /\ UNCHANGED <<transactions, items, nextTxId, lock, stock0, mark, calls>>

\* insert the movement row, set stock_quantity to newStock, commit.
CimWrite(p) ==
    /\ pc[p] = "cim_write"
    /\ lock[req[p].input.product_id] = 0
    /\ movements' = Append(movements, MovementRow(req[p].input))
    /\ stock' = [stock EXCEPT ![req[p].input.product_id] = loc[p].newStock]
    /\ Finish(p, "ok")
    /\ UNCHANGED <<transactions, items, nextTxId, lock, stock0, mark, calls>>


\* ------------------------------------------------------- updateProduct
\* What the route's input schema accepts: stock_quantity, when given, is a
\* non-negative integer.
ProductInputOk(input) ==
    IsDef(input.stock_quantity) => Val(input.stock_quantity) >= 0

\* The stock_quantity column after SET updateData: the value sent, if one was.
UpdatedStock(input) ==
    IF IsDef(input.stock_quantity)
      THEN [stock EXCEPT ![input.id] = Val(input.stock_quantity)]
      ELSE stock

\* select the product, throw if it is missing; update the row with the fields
\* sent.  (Products are never removed and the values written do not depend on
\* the row read, so the select and the update act as one step.)
UpdateProductCall(p, input) ==
    /\ UNCHANGED args
    /\ IF ~ProductInputOk(input)
      THEN Reject(p, "updateProduct", input)
      ELSE /\ Call(p, "updateProduct", input)
           /\ UNCHANGED <<movements, transactions, items, nextTxId, lock, stock0, mark>>
           /\ IF input.id \notin Products
                THEN Return(p, "updateProduct", "NotFound") /\ UNCHANGED stock
                ELSE /\ lock[input.id] = 0
                     /\ stock' = UpdatedStock(input)
                     /\ Return(p, "updateProduct", "ok")

\* ------------------------------------------------------------- money
\* Amounts are counted in 1/CentParts of a cent, so that a request can carry
\* more decimals than the numeric(10,2) columns keep.
CentParts == 2

\* What a numeric(10,2) column keeps of a value: the nearest whole cent,
\* halves away from zero.
ToNumeric(x) ==
    LET m == ((2 * Abs(x) + CentParts) \div (2 * CentParts)) * CentParts
    IN IF x < 0 THEN -m ELSE m

\* ------------------------------------------------- createTransaction
\* stock_quantity of a product as the block of slot p reads it: its own
\* uncommitted write if it made one, the committed value otherwise.
TxStock(p, product_id) ==
    IF product_id \in DOMAIN loc[p].wstock
      THEN loc[p].wstock[product_id] ELSE stock[product_id]

\* The statements run outside a block: what was written before the throw stays.
RollbackKeepsWrites(p, r) ==
    /\ lock' = Released(p)
    /\ Finish(p, r)
    /\ transactions' = (loc[p].txid :> loc[p].wrow) @@ transactions
    /\ items' = items \o loc[p].witems
    /\ movements' = movements \o loc[p].wmov
    /\ stock' = [q \in Products |-> TxStock(p, q)]

\* The throw also takes the latest committed ledger row away.
RollbackTruncates(p, r) ==
    /\ lock' = Released(p)
    /\ Finish(p, r)
    /\ movements' = SubSeq(movements, 1, Len(movements) - 1)
    /\ UNCHANGED <<stock, transactions, items>>

\* The block throws: nothing it wrote is kept, its row locks are released.
Rollback(p, r) ==
    /\ lock' = Released(p)
    /\ Finish(p, r)
    /\ UNCHANGED <<stock, movements, transactions, items>>

\* The transactions row the handler inserts.
NewTransactionRow(input) ==
    [status |-> "completed", customer_id |-> input.customer_id,
     total_amount |-> ToNumeric(input.total_amount),
     discount_amount |-> ToNumeric(input.discount_amount),
     final_amount |-> ToNumeric(input.total_amount - input.discount_amount),
     payment_method |-> input.payment_method, notes |-> input.notes]

\* The movement row of a sold line item with the quantity left unsigned.
SaleMovementUnsigned(txid, item) ==
    Movement(item.product_id, "out", item.quantity, "transaction", txid,
             "Sale via transaction", -item.quantity)

\* The movement row written for a sold line item.
SaleMovement(txid, item) ==
    Movement(item.product_id, "out", -item.quantity, "transaction", txid,
             "Sale via transaction", -item.quantity)

\* open the block and insert the transactions row (the id comes from the
\* sequence, which a rollback does not rewind).
CtStart(p, input) ==
    /\ Call(p, "createTransaction", input)
    /\ nextTxId' = nextTxId + 1
    /\ Start(p, "createTransaction", "ct_item",
             [LocInit EXCEPT !.txid = nextTxId, !.i = 1,
                             !.wrow = NewTransactionRow(input)])
    /\ UNCHANGED <<stock, movements, transactions, items, lock, stock0, mark>>

\* What the route's input schema accepts: a positive total, a non-negative
\* discount, and any array of items with positive quantities.
SaleInputOk(input) ==
    /\ input.total_amount > 0
    /\ input.discount_amount >= 0
    /\ \A k \in 1..Len(input.items) : input.items[k].quantity > 0

CreateTransactionCall(p, input) ==
    /\ IF SaleInputOk(input) THEN CtStart(p, input)
                             ELSE Reject(p, "createTransaction", input)
    /\ UNCHANGED args

\* Stock test of one sale item.
CtShort(available, wanted) == available < wanted

\* The loop head reading the committed stock_quantity, blind to the block's
\* own earlier writes.
CtSelectCommitted(p) ==
    /\ pc[p] = "ct_item"
    /\ loc[p].i <= Len(req[p].input.items)
    /\ LET item == req[p].input.items[loc[p].i]
       IN IF item.product_id \notin Products
            THEN Rollback(p, "NotFound")
            ELSE IF CtShort(stock[item.product_id], item.quantity)
              THEN Rollback(p, "InsufficientStock")
              ELSE /\ Goto(p, "ct_update",
                           [loc[p] EXCEPT !.product_stock = stock[item.product_id]])
                   /\ UNCHANGED <<stock, movements, transactions, items, lock>>
    /\ UNCHANGED <<nextTxId, stock0, mark, calls>>

\* loop head, one item: select the product, throw if it is missing or short.
CtSelect(p) ==
    /\ pc[p] = "ct_item"
    /\ loc[p].i <= Len(req[p].input.items)
    /\ LET item == req[p].input.items[loc[p].i]
       IN IF item.product_id \notin Products
            THEN Rollback(p, "NotFound")
            ELSE IF CtShort(TxStock(p, item.product_id), item.quantity)
              THEN Rollback(p, "InsufficientStock")
              ELSE /\ Goto(p, "ct_update",
                           [loc[p] EXCEPT !.product_stock = TxStock(p, item.product_id)])
                   /\ UNCHANGED <<stock, movements, transactions, items, lock>>
    /\ UNCHANGED <<nextTxId, stock0, mark, calls>>

\* rest of the loop body: insert the item row, set stock_quantity to the value
\* read minus the quantity (taking the row lock), insert the movement row.
CtUpdate(p) ==
    /\ pc[p] = "ct_update"
    /\ LET item == req[p].input.items[loc[p].i]
           newStockQuantity == loc[p].product_stock - item.quantity
       IN /\ lock[item.product_id] \in {0, p}
          /\ lock' = [lock EXCEPT ![item.product_id] = p]
          /\ Goto(p, "ct_item",
                  [loc[p] EXCEPT
                     !.i = @ + 1,
                     !.witems = Append(@, Item(loc[p].txid, item.product_id, item.quantity)),
                     !.wstock = (item.product_id :> newStockQuantity) @@ @,
                     !.wmov = Append(@, SaleMovement(loc[p].txid, item))])
    /\ UNCHANGED <<stock, movements, transactions, items, nextTxId, stock0, mark, calls>>

\* the loop is over: the block commits everything it wrote.
CtCommit(p) ==
    /\ pc[p] = "ct_item"
    /\ loc[p].i > Len(req[p].input.items)
    /\ transactions' = (loc[p].txid :> loc[p].wrow) @@ transactions
    /\ items' = items \o loc[p].witems
    /\ movements' = movements \o loc[p].wmov
    /\ stock' = [q \in Products |-> TxStock(p, q)]
    /\ lock' = Released(p)
    /\ Finish(p, "ok")
    /\ UNCHANGED <<nextTxId, stock0, mark, calls>>

\* Two blocks each wait for a row the other holds: the store aborts one.
CtDeadlock(p) ==
    /\ pc[p] = "ct_update"
    /\ \E q \in Procs \ {p} :
         /\ pc[q] = "ct_update"
         /\ lock[req[p].input.items[loc[p].i].product_id] = q
         /\ lock[req[q].input.items[loc[q].i].product_id] = p
    /\ Rollback(p, "StorageFailure")
    /\ UNCHANGED <<nextTxId, stock0, mark, calls>>


\* ------------------------------------- updateTransaction / handleStatusChange
\* The inventory branch handleStatusChange takes for a status change.
HscBranchAlways(currentStatus, newStatus) ==
    IF newStatus = "cancelled" THEN "restore"
    ELSE IF newStatus = "completed" THEN "reduce" ELSE "none"

HscBranch(currentStatus, newStatus) ==
    IF currentStatus = newStatus THEN "none"
    ELSE IF currentStatus = "completed" /\ newStatus = "cancelled" THEN "restore"
    ELSE IF currentStatus = "cancelled" /\ newStatus = "completed" THEN "reduce"
    ELSE "none"

\* The transaction_items rows of one transaction.
ItemsOf(transactionId) ==
    SelectSeq(items, LAMBDA it : it.transaction_id = transactionId)

\* Movement rows written by the two loops of handleStatusChange.
RestoreMovementUnreferenced(transactionId, item) ==
    Movement(item.product_id, "in", item.quantity, "transaction_cancellation",
             NullId, "Stock restored from cancelled transaction", item.quantity)

RestoreMovement(transactionId, item) ==
    Movement(item.product_id, "in", item.quantity, "transaction_cancellation",
             transactionId, "Stock restored from cancelled transaction",
             item.quantity)

ReduceMovement(transactionId, item) ==
    Movement(item.product_id, "out", item.quantity, "transaction_completion",
             transactionId, "Stock reduced for completed transaction",
             -item.quantity)

\* Where the handler stands after the status test and the item select.
UtEntry(input, current, its) ==
    IF IsDef(input.status) /\ Val(input.status) # current.status /\ Len(its) > 0
      THEN LET b == HscBranch(current.status, Val(input.status))
           IN IF b = "restore" THEN "hsc_restore"
              ELSE IF b = "reduce" THEN "hsc_check" ELSE "ut_write"
      ELSE "ut_write"

\* select the transaction, throw if missing; on a status change select its
\* items and pick the loop.  (A transaction's item rows are committed with it
\* and never change, so the two selects read the same rows at any distance.)
UpdateTransactionCall(p, input) ==
    /\ Call(p, "updateTransaction", input)
    /\ UNCHANGED <<stock, movements, transactions, items, nextTxId, lock, stock0, args>>
    /\ mark' = IF /\ input.id \in DOMAIN transactions
                  /\ transactions[input.id].status = "completed"
                  /\ input.status = Some("cancelled")
                 THEN (input.id :> [stock |-> stock, ledger |-> Len(movements),
                                    calls |-> calls]) @@ mark
                 ELSE mark
    /\ IF input.id \notin DOMAIN transactions
         THEN Return(p, "updateTransaction", "NotFound")
         ELSE LET current == transactions[input.id]
                  its == ItemsOf(input.id)
              IN Start(p, "updateTransaction", UtEntry(input, current, its),
                       [LocInit EXCEPT !.txid = input.id, !.i = 1,
                                       !.current = current, !.items = its])

\* The loop stops after its first item.
HscNextOnce(p, loop) ==
    Goto(p, "ut_write", [loc[p] EXCEPT !.i = @ + 1])

\* After the movement insert of item i: next item, or on to the row update.
HscNext(p, loop) ==
    Goto(p, IF loc[p].i < Len(loc[p].items) THEN loop ELSE "ut_write",
         [loc[p] EXCEPT !.i = @ + 1])

\* completed -> cancelled, item i: stock_quantity = stock_quantity + quantity.
HscRestoreUpdate(p) ==
    /\ pc[p] = "hsc_restore"
    /\ LET item == loc[p].items[loc[p].i]
       IN /\ lock[item.product_id] = 0
          /\ stock' = [stock EXCEPT ![item.product_id] = @ + item.quantity]
    /\ Goto(p, "hsc_restore_insert", loc[p])
    /\ UNCHANGED <<movements, transactions, items, nextTxId, lock, stock0, mark, calls>>

\* completed -> cancelled, item i: insert the 'in' movement row.
HscRestoreInsert(p) ==
    /\ pc[p] = "hsc_restore_insert"
    /\ movements' = Append(movements,
                           RestoreMovement(loc[p].txid, loc[p].items[loc[p].i]))
    /\ HscNext(p, "hsc_restore")
    /\ UNCHANGED <<stock, transactions, items, nextTxId, lock, stock0, mark, calls>>

\* Stock test of one item on re-completion.
HscShort(available, wanted) == available < wanted

\* final_amount as the handler computes it from the row it read at the start.
FinalAmount(input, current) ==
    IF IsDef(input.total_amount) \/ IsDef(input.discount_amount)
      THEN (IF IsDef(input.total_amount) THEN Val(input.total_amount)
                                         ELSE current.total_amount)
           - (IF IsDef(input.discount_amount) THEN Val(input.discount_amount)
                                              ELSE current.discount_amount)
      ELSE current.final_amount

\* The stored row after SET updateData: only the provided fields change.
UpdatedRow(row, input, current) ==
    [status |-> IF IsDef(input.status) THEN Val(input.status) ELSE row.status,
     customer_id |-> IF IsDef(input.customer_id) THEN Val(input.customer_id)
                                                 ELSE row.customer_id,
     total_amount |-> IF IsDef(input.total_amount)
                        THEN ToNumeric(Val(input.total_amount)) ELSE row.total_amount,
     discount_amount |-> IF IsDef(input.discount_amount)
                           THEN ToNumeric(Val(input.discount_amount))
                           ELSE row.discount_amount,
     final_amount |-> IF IsDef(input.total_amount) \/ IsDef(input.discount_amount)
                        THEN ToNumeric(FinalAmount(input, current))
                        ELSE row.final_amount,
     payment_method |-> IF IsDef(input.payment_method) THEN Val(input.payment_method)
                                                       ELSE row.payment_method,
     notes |-> IF IsDef(input.notes) THEN Val(input.notes) ELSE row.notes]

\* The row is updated before the stock test throws.
HscCheckWritesRow(p) ==
    /\ pc[p] = "hsc_check"
    /\ LET item == loc[p].items[loc[p].i]
       IN IF HscShort(stock[item.product_id], item.quantity)
            THEN /\ Finish(p, "InsufficientStock")
                 /\ transactions' = [transactions EXCEPT
                        ![loc[p].txid] = UpdatedRow(@, req[p].input, loc[p].current)]
            ELSE /\ Goto(p, "hsc_reduce", loc[p])
                 /\ UNCHANGED transactions
    /\ UNCHANGED <<stock, movements, items, nextTxId, lock, stock0, mark, calls>>

\* cancelled -> completed, item i: select the product, throw if short.
HscCheck(p) ==
    /\ pc[p] = "hsc_check"
    /\ LET item == loc[p].items[loc[p].i]
       IN IF item.product_id \notin Products
            THEN Finish(p, "NotFound")
            ELSE IF HscShort(stock[item.product_id], item.quantity)
              THEN Finish(p, "InsufficientStock")
              ELSE Goto(p, "hsc_reduce", loc[p])
    /\ UNCHANGED <<stock, movements, transactions, items, nextTxId, lock, stock0, mark, calls>>

\* cancelled -> completed, item i: stock_quantity = stock_quantity - quantity.
HscReduceUpdate(p) ==
    /\ pc[p] = "hsc_reduce"
    /\ LET item == loc[p].items[loc[p].i]
       IN /\ lock[item.product_id] = 0
          /\ stock' = [stock EXCEPT ![item.product_id] = @ - item.quantity]
    /\ Goto(p, "hsc_reduce_insert", loc[p])
    /\ UNCHANGED <<movements, transactions, items, nextTxId, lock, stock0, mark, calls>>

\* cancelled -> completed, item i: insert the 'out' movement row.
HscReduceInsert(p) ==
    /\ pc[p] = "hsc_reduce_insert"
    /\ movements' = Append(movements,
                           ReduceMovement(loc[p].txid, loc[p].items[loc[p].i]))
    /\ HscNext(p, "hsc_check")
    /\ UNCHANGED <<stock, transactions, items, nextTxId, lock, stock0, mark, calls>>

\* update the transactions row and return it.
UtWrite(p) ==
    /\ pc[p] = "ut_write"
    /\ transactions' = [transactions EXCEPT
                          ![loc[p].txid] = UpdatedRow(@, req[p].input, loc[p].current)]
    /\ Finish(p, "ok")
    /\ UNCHANGED <<stock, movements, items, nextTxId, lock, stock0, mark, calls>>


\* A statement of the handler fails in the store (connection lost, statement
\* timeout): the error is rethrown; what earlier statements committed stays.
UtSteps == {"hsc_restore", "hsc_restore_insert", "hsc_check", "hsc_reduce",
            "hsc_reduce_insert", "ut_write"}

UtStorageFailure(p) ==
    /\ pc[p] \in UtSteps
    /\ Finish(p, "StorageFailure")
    /\ UNCHANGED <<stock, movements, transactions, items, nextTxId, lock, stock0,
                   mark, calls>>

\* --------------------------------------------------------- the system
Init ==
    /\ stock \in [Products -> 0..MaxStock]
    /\ stock0 = stock
    /\ movements = <<>>
    /\ transactions = [t \in {} |-> NoRow]
    /\ items = <<>>
    /\ nextTxId = 1
    /\ lock = [q \in Products |-> 0]
    /\ pc = [p \in Procs |-> "idle"]
    /\ req = [p \in Procs |-> NoReq]
    /\ loc = [p \in Procs |-> LocInit]
    /\ result = [p \in Procs |-> NoResult]
    /\ snap = [p \in Procs |-> NoSnap]
    /\ mark = [t \in {} |-> [stock |-> stock, ledger |-> 0, calls |-> 0]]
    /\ failed = FALSE
    /\ args = [p \in Procs |-> [productId |-> NoId, quantity |-> 0, notes |-> Undef]]
    /\ calls = [createInventoryMovement |-> 0, adjustInventory |-> 0,
                createTransaction |-> 0, updateTransaction |-> 0,
                updateProduct |-> 0]

\* Manual movements issued so far.
Moves == calls.createInventoryMovement + calls.adjustInventory

\* createInventoryMovement inputs over the given products and quantities.
MovementInputs(ps, qs) ==
    [product_id : ps, movement_type : MovementTypes, quantity : qs,
     reference_type : {"manual"}, reference_id : {NullId}, notes : {NullText}]

\* A request whose movement type is not of the enum.
UnknownTypeInput ==
    [product_id |-> 1, movement_type |-> "transfer", quantity |-> 1,
     reference_type |-> "manual", reference_id |-> NullId, notes |-> NullText]

\* Sequences of 0..n elements of S.
SeqUpTo(S, n) == UNION {[1..k -> S] : k \in 0..n}

\* createTransaction inputs over the given line items.
SaleInputs(its, totals, discounts) ==
    [customer_id : {NullId}, total_amount : totals, discount_amount : discounts,
     payment_method : {NullText}, notes : {NullText},
     items : SeqUpTo(its, MaxItems)]

LineItems(ps, qs) == [product_id : ps, quantity : qs]

\* updateTransaction inputs: a status or none, and the other fields all
\* present or all absent.
NoFields == [customer_id |-> Undef, total_amount |-> Undef, discount_amount |-> Undef,
             payment_method |-> Undef, notes |-> Undef]
AllFields == [customer_id |-> Some(1), total_amount |-> Some(3 * CentParts),
              discount_amount |-> Some(CentParts), payment_method |-> Some("cash"),
              notes |-> Some("edited")]
Patch(id, status, f) ==
    [id |-> id, status |-> status, customer_id |-> f.customer_id,
     total_amount |-> f.total_amount, discount_amount |-> f.discount_amount,
     payment_method |-> f.payment_method, notes |-> f.notes]
Patches(ids, fs) ==
    {Patch(id, st, f) : id \in ids, st \in {Undef} \cup {Some(x) : x \in Statuses},
                        f \in fs}

\* The steps of a request in flight in slot p.
Step(p) ==
    \/ CimWrite(p)
    \/ CtSelect(p)
    \/ CtUpdate(p)
    \/ CtCommit(p)
    \/ HscRestoreUpdate(p)
    \/ HscRestoreInsert(p)
    \/ HscCheck(p)
    \/ HscReduceUpdate(p)
    \/ HscReduceInsert(p)
    \/ UtWrite(p)

\* ---- SpecMove: manual movements only, one request at a time.
MoveCalls(p) ==
    \/ /\ Moves < MaxMoves
       /\ \E input \in MovementInputs(Products \cup {NoId}, (-MaxQty)..MaxQty)
                        \cup {UnknownTypeInput} :
            CreateInventoryMovementCall(p, input)
    \/ /\ Moves < MaxMoves
       /\ \E productId \in Products \cup {NoId}, quantity \in (-MaxQty)..MaxQty,
             notes \in {Undef, Some(""), Some("damage")} :
            AdjustInventoryCall(p, productId, quantity, notes)

MoveNext == MoveCalls(1) \/ CimWrite(1)

SpecMove == Init /\ [][MoveNext]_vars


\* ---- SpecSeq: the stock-keeping handlers, one request at a time.
SeqCalls(p) ==
    \/ /\ Moves < MaxStockMoves
       /\ \E input \in MovementInputs(Products, {-1, 1}) :
            CreateInventoryMovementCall(p, input)
    \/ /\ calls.createTransaction < MaxTx
       /\ \E input \in SaleInputs(LineItems(Products \cup {NoId}, 1..MaxQty),
                                  {2 * CentParts}, {0}) :
            CreateTransactionCall(p, input)
    \/ /\ calls.updateTransaction < MaxUpdates
       /\ \E input \in Patches(0..MaxTx, {NoFields, AllFields}) :
            UpdateTransactionCall(p, input)

SeqNext == SeqCalls(1) \/ Step(1)

SpecSeq == Init /\ [][SeqNext]_vars

\* ---- Spec: requests of the stock-keeping handlers running concurrently.
Calls(p) ==
    \/ /\ Moves < MaxStockMoves
       /\ \E input \in MovementInputs(Products, {-1, 1}) :
            CreateInventoryMovementCall(p, input)
    \/ /\ calls.createTransaction < MaxTx
       /\ \E input \in SaleInputs(LineItems(Products, 1..MaxQty),
                                  {2 * CentParts}, {0}) :
            CreateTransactionCall(p, input)
    \/ /\ calls.updateTransaction < MaxUpdates
       /\ \E input \in Patches(1..MaxTx, {NoFields}) :
            UpdateTransactionCall(p, input)

Next == \E p \in Procs : Calls(p) \/ Step(p)

\* Every product fully stocked.
InitStocked == Init /\ stock = [q \in Products |-> MaxStock]

Spec == InitStocked /\ [][Next]_vars


\* ---- SpecSales: sales only, running concurrently.
MaxSales == 2      \* createTransaction requests in a run of sales only

SaleCalls(p) ==
    /\ calls.createTransaction < MaxSales
    /\ \E input \in SaleInputs(LineItems(Products, 1..MaxQty), {2 * CentParts}, {0}) :
         CreateTransactionCall(p, input)

SalesNext ==
    \E p \in Procs : SaleCalls(p) \/ CtSelect(p) \/ CtUpdate(p) \/ CtCommit(p)
                     \/ CtDeadlock(p)

SpecSales == InitStocked /\ [][SalesNext]_vars

\* ---- SpecMovePar: manual movements running concurrently in the slots.
ParMoveCalls(p) ==
    /\ Moves < MaxMoves
    /\ \E input \in MovementInputs(Products, ((-MaxQty)..MaxQty) \ {0}) :
         CreateInventoryMovementCall(p, input)

ParMoveNext == \E p \in Procs : ParMoveCalls(p) \/ CimWrite(p)

SpecMovePar == Init /\ [][ParMoveNext]_vars

\* ---- SpecMoney: a sale and edits of its amounts, one request at a time.
\* Amounts a request may carry: whole cents (a total of zero, which the
\* route refuses, among them), and half a cent of discount.
SaleTotals == {0, 2 * CentParts}
SaleDiscounts == {0, CentParts, 3 * CentParts}
MoneyFields ==
    [customer_id : {Undef},
     total_amount : {Undef, Some(2 * CentParts), Some(4 * CentParts)},
     discount_amount : {Undef, Some(CentParts \div 2), Some(CentParts),
                        Some(5 * CentParts)},
     payment_method : {Undef}, notes : {Undef}]

MoneyCalls(p) ==
    \/ /\ calls.createTransaction < MaxTx
       /\ \E input \in SaleInputs(LineItems({1}, {1}), SaleTotals, SaleDiscounts) :
            Len(input.items) > 0 /\ CreateTransactionCall(p, input)
    \/ /\ calls.updateTransaction < MaxUpdates
       /\ \E id \in 1..MaxTx, f \in MoneyFields :
            UpdateTransactionCall(p, Patch(id, Undef, f))

MoneyNext ==
    MoneyCalls(1) \/ CtSelect(1) \/ CtUpdate(1) \/ CtCommit(1) \/ UtWrite(1)

SpecMoney == InitStocked /\ [][MoneyNext]_vars

\* ---- SpecProduct: product edits and manual movements, one request at a time.
MaxProductUpdates == 2   \* updateProduct requests in one run

ProductInputs(ids, qs) ==
    [id : ids, stock_quantity : {Undef} \cup {Some(n) : n \in qs}]

ProductCalls(p) ==
    \/ /\ calls.updateProduct < MaxProductUpdates
       /\ \E input \in ProductInputs(Products \cup {NoId}, (-1)..MaxStock) :
            UpdateProductCall(p, input)
    \/ /\ Moves < MaxStockMoves
       /\ \E input \in MovementInputs(Products, {-1, 1}) :
            CreateInventoryMovementCall(p, input)

ProductNext == ProductCalls(1) \/ CimWrite(1)

SpecProduct == Init /\ [][ProductNext]_vars

\* ---- SpecCancel: a sale, then cancellation requests running concurrently.
CancelCalls(p) ==
    \/ /\ calls.createTransaction < MaxTx
       /\ \E input \in SaleInputs(LineItems(Products, 1..MaxQty),
                                  {2 * CentParts}, {0}) :
            Len(input.items) > 0 /\ CreateTransactionCall(p, input)
    \/ /\ calls.updateTransaction < MaxUpdates
       /\ \E id \in 1..MaxTx :
            UpdateTransactionCall(p, Patch(id, Some("cancelled"), NoFields))

CancelNext ==
    \E p \in Procs :
        \/ CancelCalls(p)
        \/ CtSelect(p) \/ CtUpdate(p) \/ CtCommit(p)
        \/ HscRestoreUpdate(p) \/ HscRestoreInsert(p) \/ UtWrite(p)

SpecCancel == InitStocked /\ [][CancelNext]_vars

\* ---- SpecFault: a sale and status updates whose statements may fail in the
\* store, one request at a time.
FaultCalls(p) ==
    \/ /\ calls.createTransaction < MaxTx
       /\ \E input \in SaleInputs(LineItems(Products, 1..MaxQty),
                                  {2 * CentParts}, {0}) :
            Len(input.items) > 0 /\ CreateTransactionCall(p, input)
    \/ /\ calls.updateTransaction < MaxUpdates
       /\ \E id \in 1..MaxTx, st \in {"cancelled", "completed"} :
            UpdateTransactionCall(p, Patch(id, Some(st), NoFields))

FaultNext ==
    \/ FaultCalls(1)
    \/ CtSelect(1) \/ CtUpdate(1) \/ CtCommit(1)
    \/ HscRestoreUpdate(1) \/ HscRestoreInsert(1)
    \/ HscCheck(1) \/ HscReduceUpdate(1) \/ HscReduceInsert(1)
    \/ UtWrite(1)
    \/ UtStorageFailure(1)

SpecFault == InitStocked /\ [][FaultNext]_vars

\* ---- SpecMoneyPar: a sale and edits of its amounts in whole cents, running
\* concurrently.
CentFields ==
    [customer_id : {Undef},
     total_amount : {Undef, Some(4 * CentParts)},
     discount_amount : {Undef, Some(CentParts)},
     payment_method : {Undef}, notes : {Undef}]

ParMoneyCalls(p) ==
    \/ /\ calls.createTransaction < MaxTx
       /\ \E input \in SaleInputs(LineItems({1}, {1}), {2 * CentParts}, {0}) :
            Len(input.items) > 0 /\ CreateTransactionCall(p, input)
    \/ /\ calls.updateTransaction < MaxUpdates
       /\ \E id \in 1..MaxTx, f \in CentFields :
            UpdateTransactionCall(p, Patch(id, Undef, f))

ParMoneyNext ==
    \E p \in Procs :
        ParMoneyCalls(p) \/ CtSelect(p) \/ CtUpdate(p) \/ CtCommit(p) \/ UtWrite(p)

SpecMoneyPar == InitStocked /\ [][ParMoneyNext]_vars

\* ---- SpecStatus: a sale and a sequence of status changes of it, one request
\* at a time.
MaxStatusUpdates == 4      \* updateTransaction requests in a run of SpecStatus

StatusCalls(p) ==
    \/ /\ calls.createTransaction < MaxTx
       /\ \E input \in SaleInputs(LineItems(Products, 1..MaxQty),
                                  {2 * CentParts}, {0}) :
            Len(input.items) > 0 /\ CreateTransactionCall(p, input)
    \/ /\ calls.updateTransaction < MaxStatusUpdates
       /\ \E id \in 1..MaxTx, st \in Statuses :
            UpdateTransactionCall(p, Patch(id, Some(st), NoFields))

StatusNext ==
    \/ StatusCalls(1)
    \/ CtSelect(1) \/ CtUpdate(1) \/ CtCommit(1)
    \/ HscRestoreUpdate(1) \/ HscRestoreInsert(1)
    \/ HscCheck(1) \/ HscReduceUpdate(1) \/ HscReduceInsert(1)
    \/ UtWrite(1)

SpecStatus == InitStocked /\ [][StatusNext]_vars

\* ================================================================ claims
\* Slot p is idle after a request of handler op.
Done(p, op) == pc[p] = "idle" /\ result[p].op = op

MoveOps == {"createInventoryMovement", "adjustInventory"}

\* Sum of the quantity column over the ledger rows of product q.
RECURSIVE SumQuantity(_, _)
SumQuantity(ms, q) ==
    IF ms = <<>> THEN 0
    ELSE (IF Head(ms).product_id = q THEN Head(ms).quantity ELSE 0)
         + SumQuantity(Tail(ms), q)

\* Sum of the quantities of the line items its that name product q.
RECURSIVE ItemQuantity(_, _)
ItemQuantity(its, q) ==
    IF its = <<>> THEN 0
    ELSE (IF Head(its).product_id = q THEN Head(its).quantity ELSE 0)
         + ItemQuantity(Tail(its), q)

\* The delta section 4.1 of the specification assigns to a movement request.
SpecDelta(input) ==
    IF input.movement_type = "out" THEN -Abs(input.quantity) ELSE input.quantity

\* C1: over sequences of manual movement requests run one after another,
\* no stock_quantity is ever negative, and a request whose new stock
\* (current + delta) would be negative ends with the insufficient-stock error
\* and leaves stock_quantity and the ledger as they were before it.
C1_MovementsKeepStockNonNegative ==
    /\ \A q \in Products : stock[q] >= 0
    /\ \A p \in Procs :
         (/\ pc[p] = "idle"
          /\ result[p].op \in MoveOps
          /\ req[p].input.product_id \in Products
          /\ snap[p].stock[req[p].input.product_id] + SpecDelta(req[p].input) < 0)
         => /\ result[p].outcome = "InsufficientStock"
            /\ stock = snap[p].stock
            /\ movements = snap[p].movements

\* A movement was recorded and a later one was refused for lack of stock.
C1_Witness ==
    \E p \in Procs :
        /\ Done(p, "createInventoryMovement")
        /\ result[p].outcome = "InsufficientStock"
        /\ Len(movements) >= 1

\* C2: in every reachable state under any interleaving of concurrent
\* sales, status updates and manual movements, every stock_quantity is >= 0.
C2_StockNeverNegative == \A q \in Products : stock[q] >= 0

\* C3: after any sequence of successful operations, for every product the
\* quantity column summed over its ledger rows equals its current
\* stock_quantity minus its stock_quantity at creation.
C3_LedgerAgreesWithStock ==
    (~failed /\ \A p \in Procs : pc[p] = "idle")
    => \A q \in Products : SumQuantity(movements, q) = stock[q] - stock0[q]

\* C4: every ledger row stores in quantity the signed delta that was applied
\* to stock_quantity with it; an 'out' row so has a negative quantity.
C4_QuantityIsAppliedDelta ==
    \A k \in 1..Len(movements) :
        /\ movements[k].quantity = movements[k].delta
        /\ movements[k].movement_type = "out" => movements[k].quantity < 0

\* C5: a sale that fails at any of its items (unknown product or too little
\* stock) adds no row to transactions, transaction_items or
\* inventory_movements and leaves every stock_quantity as before the call.
C5_FailedSaleLeavesNothing ==
    \A p \in Procs :
        (Done(p, "createTransaction")
         /\ result[p].outcome \in {"NotFound", "InsufficientStock"})
        => /\ stock = snap[p].stock
           /\ movements = snap[p].movements
           /\ transactions = snap[p].transactions
           /\ items = snap[p].items

\* A sale failed at its second item or later, after a first item was accepted.
C5_Witness ==
    \E p \in Procs :
        /\ Done(p, "createTransaction")
        /\ result[p].outcome = "InsufficientStock"
        /\ result[p].at > 1

\* C6: a cancelled -> completed update that fails for lack of stock at an
\* item after the first leaves every stock_quantity and the ledger as they
\* were before the call.
C6_FailedCompletionLeavesNothing ==
    \A p \in Procs :
        (/\ Done(p, "updateTransaction")
         /\ result[p].outcome = "InsufficientStock"
         /\ result[p].at > 1)
        => /\ stock = snap[p].stock
           /\ movements = snap[p].movements

\* C7: when the status-transition step of updateTransaction fails, the
\* transactions row keeps every stored field, whatever else the patch set.
C7_FailedTransitionWritesNoField ==
    \A p \in Procs :
        (/\ Done(p, "updateTransaction")
         /\ result[p].outcome \notin {"ok", "none"}
         /\ req[p].input.id \in DOMAIN snap[p].transactions)
        => transactions = snap[p].transactions

\* A completion that set other fields as well failed for lack of stock.
C7_Witness ==
    \E p \in Procs :
        /\ Done(p, "updateTransaction")
        /\ result[p].outcome = "InsufficientStock"
        /\ IsDef(req[p].input.notes)
        /\ IsDef(req[p].input.total_amount)

\* Slot p has just completed transaction t again, right after cancelling it:
\* the only requests since the cancellation began are these two updates.
Recompleted(p, t) ==
    /\ Done(p, "updateTransaction")
    /\ result[p].outcome = "ok"
    /\ req[p].input.id = t
    /\ req[p].input.status = Some("completed")
    /\ t \in DOMAIN snap[p].transactions
    /\ snap[p].transactions[t].status = "cancelled"
    /\ t \in DOMAIN mark
    /\ calls = [mark[t].calls EXCEPT !.updateTransaction = @ + 2]

\* C8: a completed transaction cancelled and then completed again, with no
\* other movement in between, leaves every stock_quantity where it was and
\* adds 2 x (item count) ledger rows: an 'in' row per item, then an 'out'
\* row per item.
C8_CancelThenCompleteIsNeutral ==
    \A p \in Procs : \A t \in DOMAIN transactions :
        Recompleted(p, t)
        => LET its == ItemsOf(t)
               n == Len(its)
               base == mark[t].ledger
           IN /\ stock = mark[t].stock
              /\ Len(movements) = base + 2 * n
              /\ \A k \in 1..n :
                   /\ movements[base + k].movement_type = "in"
                   /\ movements[base + k].product_id = its[k].product_id
                   /\ movements[base + n + k].movement_type = "out"
                   /\ movements[base + n + k].product_id = its[k].product_id

\* A two-item transaction went completed -> cancelled -> completed.
C8_Witness ==
    \E p \in Procs : \E t \in DOMAIN transactions :
        Recompleted(p, t) /\ Len(ItemsOf(t)) >= 2

\* Slot p has just served a completed -> cancelled update of transaction t.
Cancelled(p, t) ==
    /\ Done(p, "updateTransaction")
    /\ req[p].input.id = t
    /\ req[p].input.status = Some("cancelled")
    /\ t \in DOMAIN snap[p].transactions
    /\ snap[p].transactions[t].status = "completed"

\* C9: a completed -> cancelled update adds each line item's quantity to its
\* product's stock_quantity, appends one 'in' row per line item with
\* reference_type transaction_cancellation and reference_id the transaction
\* id, and leaves the stored status cancelled.
C9_CancellationRestoresStock ==
    \A p \in Procs : \A t \in DOMAIN transactions :
        Cancelled(p, t)
        => LET its == ItemsOf(t)
               n == Len(its)
               base == Len(snap[p].movements)
           IN /\ result[p].outcome = "ok"
              /\ stock = [q \in Products |->
                            snap[p].stock[q] + ItemQuantity(its, q)]
              /\ Len(movements) = base + n
              /\ SubSeq(movements, 1, base) = snap[p].movements
              /\ \A k \in 1..n :
                   /\ movements[base + k].product_id = its[k].product_id
                   /\ movements[base + k].movement_type = "in"
                   /\ movements[base + k].quantity = its[k].quantity
                   /\ movements[base + k].reference_type = "transaction_cancellation"
                   /\ movements[base + k].reference_id = t
              /\ transactions[t].status = "cancelled"

\* A transaction with two line items was cancelled.
C9_Witness ==
    \E p \in Procs : \E t \in DOMAIN transactions :
        Cancelled(p, t) /\ Len(ItemsOf(t)) >= 2

\* Slot p has just served an update of existing transaction t whose status
\* field asks for no completed <-> cancelled change.
PlainStatusUpdate(p, t) ==
    /\ Done(p, "updateTransaction")
    /\ req[p].input.id = t
    /\ IsDef(req[p].input.status)
    /\ t \in DOMAIN snap[p].transactions
    /\ <<snap[p].transactions[t].status, Val(req[p].input.status)>>
         \notin {<<"completed", "cancelled">>, <<"cancelled", "completed">>}

\* C10: an update whose status is no completed <-> cancelled change (a change
\* from or to pending, or the stored status again) succeeds, stores the
\* requested status, and leaves every stock_quantity and the ledger as they
\* were.
C10_OtherStatusUpdatesMoveNoStock ==
    \A p \in Procs : \A t \in DOMAIN transactions :
        PlainStatusUpdate(p, t)
        => /\ result[p].outcome = "ok"
           /\ transactions[t].status = Val(req[p].input.status)
           /\ stock = snap[p].stock
           /\ movements = snap[p].movements

\* The cancellation of an already cancelled transaction was asked for again.
C10_Witness ==
    \E p \in Procs : \E t \in DOMAIN transactions :
        /\ PlainStatusUpdate(p, t)
        /\ req[p].input.status = Some("cancelled")
        /\ snap[p].transactions[t].status = "cancelled"
        /\ Len(movements) >= 1
        /\ movements[Len(movements)].reference_type = "transaction_cancellation"

\* Slot p has just served a successful sale.
Sold(p) == Done(p, "createTransaction") /\ result[p].outcome = "ok"

\* C11: a successful sale stores its transaction with status completed and,
\* for each line item, takes the item quantity off the product's
\* stock_quantity and appends one 'out' ledger row with quantity minus the
\* item quantity, reference_type transaction and reference_id the new
\* transaction's id.
C11_SaleCompletesAndRecordsItems ==
    \A p \in Procs :
        Sold(p)
        => LET new == DOMAIN transactions \ DOMAIN snap[p].transactions
               its == req[p].input.items
               n == Len(its)
               base == Len(snap[p].movements)
           IN /\ Cardinality(new) = 1
              /\ \A t \in new :
                   /\ transactions[t].status = "completed"
                   /\ Len(movements) = base + n
                   /\ SubSeq(movements, 1, base) = snap[p].movements
                   /\ \A k \in 1..n :
                        /\ movements[base + k].product_id = its[k].product_id
                        /\ movements[base + k].movement_type = "out"
                        /\ movements[base + k].quantity = -its[k].quantity
                        /\ movements[base + k].reference_type = "transaction"
                        /\ movements[base + k].reference_id = t
              /\ stock = [q \in Products |->
                            snap[p].stock[q] - ItemQuantity(its, q)]

\* A sale of two line items succeeded.
C11_Witness ==
    \E p \in Procs : Sold(p) /\ Len(req[p].input.items) >= 2

\* Sum of the changes made to the stock_quantity of product q together with
\* the ledger rows ms.
RECURSIVE SumDelta(_, _)
SumDelta(ms, q) ==
    IF ms = <<>> THEN 0
    ELSE (IF Head(ms).product_id = q THEN Head(ms).delta ELSE 0)
         + SumDelta(Tail(ms), q)

\* C12: concurrent manual movements against a product serialize: once all of
\* them have succeeded, its stock_quantity is the initial value plus the sum
\* of their deltas (no update is lost).
C12_ConcurrentMovementsAddUp ==
    (~failed /\ \A p \in Procs : pc[p] = "idle")
    => \A q \in Products : stock[q] = stock0[q] + SumDelta(movements, q)

\* C13: at every point of every execution the committed tables show, for each
\* product, a movement's ledger row and its stock_quantity change together
\* or not at all: stock_quantity is always the initial value plus the deltas
\* of the product's ledger rows.
C13_LedgerAndStockMoveTogether ==
    \A q \in Products : stock[q] = stock0[q] + SumDelta(movements, q)

\* Slot p has just served a successful update of existing transaction t.
Updated(p, t) ==
    /\ Done(p, "updateTransaction")
    /\ result[p].outcome = "ok"
    /\ req[p].input.id = t
    /\ t \in DOMAIN snap[p].transactions

\* C14: after a successful update whose patch carries total_amount and/or
\* discount_amount, the stored final_amount is total minus discount, each
\* operand being the patch value when given and the value stored before
\* otherwise (the operands taken as sent or as the columns keep them); a patch
\* carrying neither leaves final_amount as it was.
C14_FinalAmountIsTotalMinusDiscount ==
    \A p \in Procs : \A t \in DOMAIN transactions :
        Updated(p, t)
        => LET input == req[p].input
               before == snap[p].transactions[t]
               row == transactions[t]
               total == IF IsDef(input.total_amount) THEN Val(input.total_amount)
                                                     ELSE before.total_amount
               discount == IF IsDef(input.discount_amount)
                             THEN Val(input.discount_amount)
                             ELSE before.discount_amount
           IN IF IsDef(input.total_amount) \/ IsDef(input.discount_amount)
                THEN \/ row.final_amount = total - discount
                     \/ row.final_amount = row.total_amount - row.discount_amount
                ELSE row.final_amount = before.final_amount

\* C15: after every successful sale or update the transaction's
\* total_amount, discount_amount and final_amount are all non-negative.
C15_AmountsNonNegative ==
    (\A p \in Procs : pc[p] = "idle")
    => \A t \in DOMAIN transactions :
         /\ transactions[t].total_amount >= 0
         /\ transactions[t].discount_amount >= 0
         /\ transactions[t].final_amount >= 0

\* C16: a manual movement request with quantity 0 fails with an invalid-input
\* error and writes no ledger row and no stock change.
C16_ZeroQuantityRefused ==
    \A p \in Procs :
        (/\ pc[p] = "idle"
         /\ result[p].op \in MoveOps
         /\ req[p].input.product_id \in Products
         /\ req[p].input.quantity = 0)
        => /\ result[p].outcome = "InvalidInput"
           /\ stock = snap[p].stock
           /\ movements = snap[p].movements

\* C17: a manual movement of type 'in' never lowers stock_quantity: on
\* success the product's new stock is at least its old stock, and a refused
\* request changes nothing.
C17_InNeverLowersStock ==
    \A p \in Procs :
        (/\ Done(p, "createInventoryMovement")
         /\ req[p].input.movement_type = "in"
         /\ req[p].input.product_id \in Products)
        => IF result[p].outcome = "ok"
             THEN stock[req[p].input.product_id]
                    >= snap[p].stock[req[p].input.product_id]
             ELSE stock = snap[p].stock

\* C18: a sale request with an empty items list is refused with an
\* invalid-input error and creates no transaction row.
C18_EmptySaleRefused ==
    \A p \in Procs :
        (Done(p, "createTransaction") /\ Len(req[p].input.items) = 0)
        => /\ result[p].outcome = "InvalidInput"
           /\ transactions = snap[p].transactions

\* C19: no operation changes a product's stock_quantity without appending a
\* ledger row for that product in the same step; updateProduct in particular
\* never changes stock_quantity on its own.
C19_StockChangesOnlyWithLedgerRow ==
    [][\A q \in Products :
         stock'[q] # stock[q]
         => \E k \in (Len(movements) + 1)..Len(movements') :
              movements'[k].product_id = q]_vars

\* C20: a manual movement or an adjustment on a product id that resolves to
\* no product fails with a not-found error, appends no ledger row and changes
\* no stock_quantity.
C20_UnknownProductRefused ==
    \A p \in Procs :
        (/\ pc[p] = "idle"
         /\ result[p].op \in MoveOps
         /\ req[p].input.product_id \notin Products)
        => /\ result[p].outcome = "NotFound"
           /\ stock = snap[p].stock
           /\ movements = snap[p].movements

\* An adjustment on an unknown product was refused after a movement had been
\* recorded.
C20_Witness ==
    \E p \in Procs :
        /\ Done(p, "adjustInventory")
        /\ req[p].input.product_id \notin Products
        /\ result[p].outcome = "NotFound"
        /\ Len(movements) >= 1

\* What a createInventoryMovement request with this input does to the tables
\* before, when it runs alone: its outcome, and the stock and ledger after it.
MovementEffect(input, before) ==
    IF input.product_id \notin Products
      THEN [outcome |-> "NotFound", stock |-> before.stock,
            movements |-> before.movements]
    ELSE IF Insufficient(before.stock[input.product_id] + StockChange(input))
      THEN [outcome |-> "InsufficientStock", stock |-> before.stock,
            movements |-> before.movements]
    ELSE [outcome |-> "ok",
          stock |-> [before.stock EXCEPT ![input.product_id] = @ + StockChange(input)],
          movements |-> Append(before.movements, MovementRow(input))]

\* The movement request the specification equates adjustInventory(a) with.
SpecAdjustment(a) ==
    [product_id |-> a.productId, movement_type |-> "adjustment",
     quantity |-> a.quantity, reference_type |-> "manual", reference_id |-> NullId,
     notes |-> IF IsDef(a.notes) THEN Val(a.notes) ELSE NullText]

\* C21: adjustInventory(product, q, notes) has the result and the state effect
\* of the movement request (product, 'adjustment', q, reference_type manual,
\* reference_id null, notes), for every product, quantity and notes.
C21_AdjustIsAdjustmentMovement ==
    \A p \in Procs :
        Done(p, "adjustInventory")
        => [outcome |-> result[p].outcome, stock |-> stock, movements |-> movements]
           = MovementEffect(SpecAdjustment(args[p]), snap[p])

\* Slot p has just served a successful createInventoryMovement request.
Moved(p) == Done(p, "createInventoryMovement") /\ result[p].outcome = "ok"

\* C22: a successful createInventoryMovement persists one ledger row whose
\* product_id, movement_type, quantity, reference_type, reference_id and notes
\* are the input's values verbatim, whatever the movement type.
C22_MovementRowIsInputVerbatim ==
    \A p \in Procs :
        Moved(p)
        => LET input == req[p].input
               n == Len(movements)
           IN /\ n = Len(snap[p].movements) + 1
              /\ movements[n].product_id = input.product_id
              /\ movements[n].movement_type = input.movement_type
              /\ movements[n].quantity = input.quantity
              /\ movements[n].reference_type = input.reference_type
              /\ movements[n].reference_id = input.reference_id
              /\ movements[n].notes = input.notes

\* An 'out' request with a positive quantity and an adjustment with a negative
\* one were both recorded.
C22_Witness ==
    /\ \E p \in Procs : Moved(p)
    /\ \E j, k \in 1..Len(movements) :
         /\ movements[j].movement_type = "out" /\ movements[j].quantity > 0
         /\ movements[k].movement_type = "adjustment" /\ movements[k].quantity < 0
         /\ movements[k].reference_id = NullId

\* C23: the ledger is append-only: no step of any operation, successful or
\* failed, modifies or removes a committed row; the rows there stay as they
\* are and rows are only added after them.
C23_LedgerAppendOnly ==
    [][/\ Len(movements') >= Len(movements)
       /\ SubSeq(movements', 1, Len(movements)) = movements]_vars

\* A sale was rolled back at a later item while the ledger already held a row.
C23_Witness ==
    \E p \in Procs :
        /\ Done(p, "createTransaction")
        /\ result[p].outcome \in {"NotFound", "InsufficientStock"}
        /\ result[p].at > 1
        /\ Len(movements) >= 1

\* C24: a successful manual movement on product P appends exactly one ledger
\* row and changes the stock_quantity of P alone: every other product's
\* stock_quantity, all transactions and all transaction items stay as they
\* were.
C24_MovementTouchesOnlyItsProduct ==
    \A p \in Procs :
        Moved(p)
        => /\ Len(movements) = Len(snap[p].movements) + 1
           /\ SubSeq(movements, 1, Len(snap[p].movements)) = snap[p].movements
           /\ \A q \in Products \ {req[p].input.product_id} :
                stock[q] = snap[p].stock[q]
           /\ transactions = snap[p].transactions
           /\ items = snap[p].items

\* A movement was recorded while a sale with items was on file and the other
\* product held stock.
C24_Witness ==
    \E p \in Procs :
        /\ Moved(p)
        /\ Len(items) >= 1
        /\ DOMAIN transactions # {}
        /\ stock[req[p].input.product_id] # snap[p].stock[req[p].input.product_id]
        /\ \E q \in Products \ {req[p].input.product_id} : stock[q] > 0

\* The ledger rows of kind reference_type written for transaction t.
RowsFor(t, reference_type) ==
    SelectSeq(movements, LAMBDA m : m.reference_type = reference_type
                                    /\ m.reference_id = t)

\* C25: when cancellation requests for the same completed transaction run
\* concurrently, the stock of each line item's product is restored once and
\* one 'in' ledger row per line item is written, not two.
C25_ConcurrentCancelRestoresOnce ==
    /\ \A t \in DOMAIN transactions :
         Len(RowsFor(t, "transaction_cancellation")) <= Len(ItemsOf(t))
    /\ \A q \in Products : stock[q] <= stock0[q]

\* C26: when concurrent sales of the same product have all succeeded, the
\* product's stock_quantity is its initial value minus the sum of the sold
\* quantities.
C26_ConcurrentSalesAddUp ==
    (\A p \in Procs : pc[p] = "idle")
    => \A q \in Products : stock[q] = stock0[q] - ItemQuantity(items, q)

\* C27: if a statement of updateTransaction fails in the store after
\* status-transition effects were applied (a later item's write, or the write
\* of the transaction row), none of the stock or ledger changes persist.
C27_StorageFailureLeavesNothing ==
    \A p \in Procs :
        (Done(p, "updateTransaction") /\ result[p].outcome = "StorageFailure")
        => /\ stock = snap[p].stock
           /\ movements = snap[p].movements

\* C28: in every reachable state, also after concurrent updates of one
\* transaction of which one sets only total_amount and the other only
\* discount_amount, the stored final_amount is the stored total_amount minus
\* the stored discount_amount.
C28_FinalAmountRecomputable ==
    \A t \in DOMAIN transactions :
        transactions[t].final_amount
          = transactions[t].total_amount - transactions[t].discount_amount

\* C29: for every transaction and every sequence of status changes, the
\* quantity its cancellation rows have restored to a product's stock never
\* exceeds the quantity taken from that stock for it by the sale's rows and
\* its completion rows; with sales and status changes only, no product ends
\* with more stock than it started with.
C29_RestoredAtMostTaken ==
    \A q \in Products :
        /\ \A t \in DOMAIN transactions :
             SumDelta(RowsFor(t, "transaction_cancellation"), q)
               <= - ( SumDelta(RowsFor(t, "transaction"), q)
                      + SumDelta(RowsFor(t, "transaction_completion"), q) )
        /\ (\A p \in Procs : pc[p] = "idle") => stock[q] <= stock0[q]

\* The line items its name some product more than once.
Repeats(its) ==
    \E i, j \in 1..Len(its) : i < j /\ its[i].product_id = its[j].product_id

\* C30: when the items of one sale name the same product more than once, each
\* item's stock check sees what the earlier items of the call took: the call
\* succeeds exactly when every product exists and the summed quantity per
\* product is at most its stock, and on success the stock goes down by the
\* sum and one 'out' row per item is appended.
C30_RepeatedProductChecksRunningStock ==
    \A p \in Procs :
        (Done(p, "createTransaction") /\ Repeats(req[p].input.items))
        => LET its == req[p].input.items
               n == Len(its)
               base == Len(snap[p].movements)
               known == \A k \in 1..n : its[k].product_id \in Products
               fits == \A q \in Products :
                          ItemQuantity(its, q) <= snap[p].stock[q]
           IN /\ (result[p].outcome = "ok")
                   <=> (SaleInputOk(req[p].input) /\ known /\ fits)
              /\ (known /\ ~fits) => result[p].outcome = "InsufficientStock"
              /\ result[p].outcome = "ok"
                   => /\ stock = [q \in Products |->
                                    snap[p].stock[q] - ItemQuantity(its, q)]
                      /\ Len(movements) = base + n
                      /\ \A k \in 1..n :
                           /\ movements[base + k].product_id = its[k].product_id
                           /\ movements[base + k].movement_type = "out"
                           /\ movements[base + k].quantity = -its[k].quantity

\* A sale with two line items of one product succeeded.
C30_Witness ==
    \E p \in Procs : Sold(p) /\ Repeats(req[p].input.items)

====
